---- MODULE Spec2Model ----
(***************************************************************************)
(* Model of rs7: the version-aware instruction decoder generated by the    *)
(* rs7-proc derive macro, the IR emitter and lifter, and the LuaJIT dump   *)
(* parser.                                                                 *)
(***************************************************************************)
EXTENDS Integers, Sequences, FiniteSets, TLC

VARIABLES
    checks,     \* the build: TRUE when integer overflow panics, FALSE when it wraps
    table,      \* the opcode table handed to the derive macro
    gen,        \* outcome of bytecode_insn_impl: status and generated ranges
    dec,        \* outcome of the last call of the generated Instruction::new
    emitter,    \* the Emitter: its instructions vector
    estatus,    \* "ok", or "panic" once a call on the emitter has panicked
    log,        \* the calls made on the emitter, each with the state it found
    input,      \* the bytes handed to Dump::new
    cursor,     \* number of bytes of input consumed so far
    dump,       \* the Dump under construction: stripped, name, protos, main
    pstatus,    \* "start", "loop", "done", or "panic"
    frames      \* the calls of Prototype::new made so far, with their extent

genVars == <<table, gen, dec>>
emitVars == <<emitter, estatus, log>>
dumpVars == <<input, cursor, dump, pstatus, frames>>

vars == <<checks, table, gen, dec, emitter, estatus, log,
          input, cursor, dump, pstatus, frames>>

(***************************************************************************)
(* Bounds of the model.                                                    *)
(***************************************************************************)
MaxVariants == 2
MaxVer == 2

(***************************************************************************)
(* Program constants.                                                      *)
(***************************************************************************)
U8Max == 255
DefaultAdded == 1

(***************************************************************************)
(* Helpers.                                                                *)
(***************************************************************************)
Min2(x, y) == IF x <= y THEN x ELSE y
Max2(x, y) == IF x >= y THEN x ELSE y
SetMin(S) == CHOOSE x \in S : \A y \in S : x <= y
SetMax(S) == CHOOSE x \in S : \A y \in S : x >= y

\* Option<T> is a set with at most one element.
None == {}
Some(x) == {x}
UnwrapOr(opt, dflt) == IF opt = {} THEN dflt ELSE CHOOSE x \in opt : TRUE

\* Iteration order of a BTreeSet<usize>: ascending.
SortedSeq(S) ==
    [k \in 1..Cardinality(S) |->
        CHOOSE x \in S : Cardinality({y \in S : y < x}) = k - 1]

Reverse(s) == [k \in 1..Len(s) |-> s[Len(s) + 1 - k]]

(***************************************************************************)
(* rs7-proc/src/insns.rs: the decoder generator.                           *)
(* A variant is [fields, added, removed]; Metadata is (added, removed).    *)
(***************************************************************************)

\* LiveFilter with the removal bound taken inclusively.
LiveFilter_RemovedInclusive(m, version) ==
    ~(version < m.added \/ version > UnwrapOr(m.removed, U8Max))

\* The filter of collect_instruction_ranges: variant m is live at version.
LiveFilter(m, version) ==
    ~(version < m.added \/ version >= UnwrapOr(m.removed, U8Max))

LiveAt(instructions, version) ==
    {i \in DOMAIN instructions : LiveFilter(instructions[i], version)}

VersionMin(instructions) ==
    IF instructions = <<>> THEN 1
    ELSE SetMin({Min2(instructions[i].added,
                      UnwrapOr(instructions[i].removed, instructions[i].added))
                 : i \in DOMAIN instructions})

\* max before the "+ 1" of line 85.
VersionMaxBase(instructions) ==
    IF instructions = <<>> THEN 1
    ELSE SetMax({Max2(instructions[i].added,
                      UnwrapOr(instructions[i].removed, instructions[i].added))
                 : i \in DOMAIN instructions})

\* u8 addition: with overflow checks the generator panics, without it wraps.
AddU8(x, y, checked) ==
    IF x + y <= U8Max THEN [panic |-> FALSE, val |-> x + y]
    ELSE IF checked THEN [panic |-> TRUE, val |-> 0]
    ELSE [panic |-> FALSE, val |-> (x + y) % (U8Max + 1)]

\* The BTreeMap<u8, BTreeSet<usize>> is the sequence of its (key, entries)
\* pairs in key order, which is the order make_stable_ranges iterates it in.
\* RunEnd is the index of the first pair after k whose entries differ from
\* those of k (Len + 1 when there is none): the loop takes its `extend`
\* branch on every pair in between.
RunEnd(versions, k) ==
    SetMin({j \in (k + 1)..Len(versions) : versions[j][2] # versions[k][2]}
               \cup {Len(versions) + 1})

RECURSIVE StableLoop(_, _, _, _)
\* The loop of make_stable_ranges, one run of equal entries per step: the
\* first key v of a run starts the range [v, v + 1) and every further key of
\* the run adds 1 to its end.
StableLoop(versions, k, result, checked) ==
    IF k > Len(versions) THEN [panic |-> FALSE, ranges |-> result]
    ELSE
        LET j == RunEnd(versions, k)
            \* the end after the last key of the run, as u8
            e == AddU8(versions[j - 1][1], 1, checked)
            r == [start |-> versions[k][1], end |-> e.val,
                  instructions |-> versions[k][2]]
        IN IF e.panic THEN [panic |-> TRUE, ranges |-> <<>>]
           ELSE IF j > Len(versions)
                \* the last range: "r.end = r.start"
                THEN [panic |-> FALSE,
                      ranges |-> Append(result, [r EXCEPT !.end = r.start])]
                ELSE StableLoop(versions, j, Append(result, r), checked)

make_stable_ranges(versions, checked) == StableLoop(versions, 1, <<>>, checked)

collect_instruction_ranges(instructions, checked) ==
    LET min == VersionMin(instructions)
        max == AddU8(VersionMaxBase(instructions), 1, checked)
    IN IF max.panic THEN [panic |-> TRUE, ranges |-> <<>>]
       ELSE make_stable_ranges(
                [k \in 1..(max.val - min + 1) |->
                    <<min + k - 1, LiveAt(instructions, min + k - 1)>>],
                checked)

\* generate_arm's assertion: the variant cannot be encoded.
HasBC(fields) == "b" \in fields \/ "c" \in fields
HasD(fields) == "d" \in fields
ArmRejected(v) == HasD(v.fields) /\ HasBC(v.fields)

\* One generated "if range_check { ... }" block.
Implementation(r) ==
    [start |-> r.start, end |-> r.end, arms |-> SortedSeq(r.instructions)]

bytecode_insn_impl(instructions, checked) ==
    LET versions == collect_instruction_ranges(instructions, checked)
    IN IF versions.panic
       THEN [status |-> "overflow", impls |-> <<>>]
       ELSE IF \E i \in DOMAIN instructions : ArmRejected(instructions[i])
       THEN [status |-> "layout", impls |-> <<>>]
       ELSE [status |-> "generated",
             impls |-> Reverse([k \in DOMAIN versions.ranges
                                   |-> Implementation(versions.ranges[k])])]

(***************************************************************************)
(* The generated Instruction::new(data, version).                          *)
(***************************************************************************)
\* A u32 is held as two 16-bit limbs [lo, hi]: its value is lo + 65536 * hi.
\* insn >> n for n < 32.
Shr(w, n) ==
    IF n < 16
    THEN [lo |-> (w.lo \div (2 ^ n)) + (w.hi % (2 ^ n)) * (2 ^ (16 - n)),
          hi |-> w.hi \div (2 ^ n)]
    ELSE [lo |-> w.hi \div (2 ^ (n - 16)), hi |-> 0]

\* w & mask for a mask 2^k - 1 of at most 16 bits, cast to the field's type.
AndMask(w, mask) == w.lo % (mask + 1)

\* DecodeField with the shifts of b and c exchanged.
DecodeField_SwappedBC(f, insn) ==
    CASE f = "a" -> AndMask(Shr(insn, 8), 255)
      [] f = "b" -> AndMask(Shr(insn, 24), 255)
      [] f = "c" -> AndMask(Shr(insn, 16), 255)
      [] f = "d" -> AndMask(Shr(insn, 16), 65535)

\* The operand expressions of lines 223-226.
DecodeField(f, insn) ==
    CASE f = "a" -> AndMask(Shr(insn, 8), 255)
      [] f = "b" -> AndMask(Shr(insn, 16), 255)
      [] f = "c" -> AndMask(Shr(insn, 24), 255)
      [] f = "d" -> AndMask(Shr(insn, 16), 65535)

NoOperands == [f \in {} |-> 0]

\* parse_<variant>(insn)
ParseVariant(instructions, i, insn) ==
    [kind |-> "insn", variant |-> i,
     ops |-> [f \in instructions[i].fields |-> DecodeField(f, insn)]]

Panic(msg) == [kind |-> msg, variant |-> 0, ops |-> NoOperands]

RangeCheck_InclusiveEnd(impl, version) ==
    IF impl.start = impl.end THEN version >= impl.start
    ELSE version >= impl.start /\ version <= impl.end

RangeCheck(impl, version) ==
    IF impl.start = impl.end THEN version >= impl.start
    ELSE version >= impl.start /\ version < impl.end

\* The generated "match insn & 0xFF { i => parse_<variant>(insn), ...,
\* _ => panic!(...) }" of a non-empty range.
Dispatch(instructions, arms, insn) ==
    LET opcode == AndMask(insn, 255)
    IN IF opcode < Len(arms)
       THEN ParseVariant(instructions, arms[opcode + 1], insn)
       ELSE Panic("UnknownOpcode")

RECURSIVE InstructionNew(_, _, _, _)
\* The generated blocks are tested in order; the first whose range check
\* holds returns or panics.
InstructionNew(instructions, impls, insn, version) ==
    IF impls = <<>> THEN Panic("UnsupportedVersion")
    ELSE LET impl == Head(impls)
         IN IF RangeCheck(impl, version) THEN
                IF Len(impl.arms) = 0 THEN Panic("UnsupportedVersion")
                ELSE Dispatch(instructions, impl.arms, insn)
            ELSE InstructionNew(instructions, Tail(impls), insn, version)

(***************************************************************************)
(* Inputs of the generator specifications.                                 *)
(***************************************************************************)
Variant(f, a, r) == [fields |-> f, added |-> a, removed |-> r]

\* The table of tests::valid_codegen.
TestTable ==
    << Variant({"a"}, DefaultAdded, None),
       Variant({"b"}, 2, None),
       Variant({"c"}, DefaultAdded, Some(4)),
       Variant({"d"}, DefaultAdded, Some(2)),
       Variant({"a", "d"}, DefaultAdded, None) >>

\* Attribute values of the version-drift tables: small versions and the last
\* value below the u8 sentinel 0xFF of line 93.
AttrVals == (1..MaxVer) \cup {U8Max - 1}
VerVariants ==
    {Variant({"a", "d"}, a, r) :
        a \in AttrVals, r \in {None} \cup {Some(x) : x \in AttrVals}}

\* Tables whose version arithmetic leaves u8.
OverflowTables ==
    { <<Variant({"a"}, U8Max, None)>>,
      <<Variant({"a"}, DefaultAdded, None), Variant({"b"}, 2, Some(U8Max))>> }

VerTables ==
    UNION {[1..n -> VerVariants] : n \in 0..MaxVariants}
        \cup {TestTable} \cup OverflowTables

\* Operand-layout tables: every set of fields, with default attributes or
\* attributes that make the variant live in no version.
Fields == {"a", "b", "c", "d"}
OpsVariants ==
    {Variant(f, DefaultAdded, None) : f \in SUBSET Fields}
        \cup {Variant(f, 2, Some(1)) : f \in SUBSET Fields}

\* A table wide enough for opcode 0x78 to be live.
WideTable ==
    [i \in 1..121 |->
        Variant(IF i % 2 = 0 THEN {"a", "d"} ELSE {"a", "b", "c"},
                DefaultAdded, None)]

OpsTables ==
    UNION {[1..n -> OpsVariants] : n \in 0..MaxVariants}
        \cup {TestTable, WideTable} \cup OverflowTables

QueryVersions == (0..(MaxVer + 2)) \cup {U8Max - 1, U8Max}

\* A 32-bit instruction word from its four bytes OP | A | B | C.
Word(op, a, b, c) == [lo |-> op + 256 * a, hi |-> b + 256 * c]

\* Operand bytes (A, B, C) of the words under test.
OperandBytes == { <<86, 52, 18>>, <<255, 0, 128>>, <<0, 255, 1>> }

NoDecode == [version |-> 0, insn |-> Word(0, 0, 0, 0), res |-> Panic("none")]
NotGenerated == [status |-> "input", impls |-> <<>>]

\* Emitter::new(), no call made yet.
EmitterNew ==
    /\ emitter = <<>>
    /\ estatus = "ok"
    /\ log = <<>>

\* The Dump fields before Dump::new has read anything.
NoDump == [stripped |-> FALSE, name |-> None, protos |-> <<>>, main |-> None]

\* Dump::new not called.
NoInput ==
    /\ input = <<>>
    /\ cursor = 0
    /\ dump = NoDump
    /\ pstatus = "start"
    /\ frames = <<>>

\* bytecode_insn_impl runs once on the table.
Generate ==
    /\ gen.status = "input"
    /\ gen' = bytecode_insn_impl(table, checks)
    /\ UNCHANGED <<table, dec>>
    /\ UNCHANGED <<checks, emitVars, dumpVars>>

\* One call of the generated decoder on the word and version under test.
Decode(insn, version) ==
    /\ gen.status = "generated"
    /\ dec = NoDecode
    /\ dec' = [version |-> version, insn |-> insn,
               res |-> InstructionNew(table, gen.impls, insn, version)]
    /\ UNCHANGED <<table, gen>>
    /\ UNCHANGED <<checks, emitVars, dumpVars>>

InitVer ==
    /\ checks \in BOOLEAN
    /\ table \in VerTables
    /\ gen = NotGenerated
    /\ dec = NoDecode
    /\ EmitterNew
    /\ NoInput

NextVer ==
    \/ Generate
    \/ \E op \in 0..Len(table), v \in QueryVersions :
          Decode(Word(op, 86, 52, 18), v)

SpecVer == InitVer /\ [][NextVer]_vars

InitOps ==
    /\ checks \in BOOLEAN
    /\ table \in OpsTables
    /\ gen = NotGenerated
    /\ dec = NoDecode
    /\ EmitterNew
    /\ NoInput

NextOps ==
    \/ Generate
    \/ \E op \in 0..Len(table), abc \in OperandBytes, v \in {1, U8Max} :
          Decode(Word(op, abc[1], abc[2], abc[3]), v)

SpecOps == InitOps /\ [][NextOps]_vars

(***************************************************************************)
(* Claims about the generator and the generated decoder.                   *)
(***************************************************************************)
\* live(v) as the specification defines it.
Live(t, v) ==
    {i \in DOMAIN t :
        t[i].added <= v /\ (t[i].removed = None \/ \A r \in t[i].removed : v < r)}

\* The k-th (from 0) element of live(v) in declaration order.
KthLive(t, v, k) ==
    CHOOSE i \in Live(t, v) : Cardinality({j \in Live(t, v) : j < i}) = k

Decoded == dec.res.kind # "none"
DecOpcode == dec.insn.lo % 256

\* The opcode numbering the claim gives for the table of tests::valid_codegen
\* (variants A, B, C, D, AD are 1..5).
TestNumbering(v) ==
    IF v = 1 THEN <<1, 3, 4, 5>>
    ELSE IF v \in {2, 3} THEN <<1, 2, 3, 5>>
    ELSE <<1, 2, 5>>

\* C1: at every version the generated decoder supports, a word whose opcode
\* byte is k < |live(v)| decodes to the k-th variant of live(v) in declaration
\* order; for the table [A, B added=2, C removed=4, D removed=2, AD] every
\* version >= 1 is supported and the numbering is the stated one.
C1_DecodeKthLive ==
    Decoded =>
        /\ (dec.res.kind # "UnsupportedVersion"
              /\ DecOpcode < Cardinality(Live(table, dec.version)))
            => /\ dec.res.kind = "insn"
               /\ dec.res.variant = KthLive(table, dec.version, DecOpcode)
        /\ (table = TestTable /\ dec.version >= 1
              /\ DecOpcode < Len(TestNumbering(dec.version)))
            => /\ dec.res.kind = "insn"
               /\ dec.res.variant = TestNumbering(dec.version)[DecOpcode + 1]

\* C1 witness: a decode where the opcode number has drifted from the
\* declaration index, in a table other than the test table.
C1_Witness ==
    /\ Decoded
    /\ table # TestTable
    /\ dec.res.kind = "insn"
    /\ dec.res.variant > DecOpcode + 1
    /\ Live(table, dec.version) # DOMAIN table

\* C2: generation aborts and produces no decoder whenever some variant
\* declares d together with b or c, wherever it stands and whatever its
\* attributes, even if it is live in no version; a table with no such
\* variant is accepted: a decoder is generated.
Mixed(v) == "d" \in v.fields /\ (v.fields \cap {"b", "c"}) # {}

C2_MixedLayoutRejected ==
    gen.status # "input" =>
        IF \E i \in DOMAIN table : Mixed(table[i])
        THEN gen.status # "generated" /\ gen.impls = <<>>
        ELSE gen.status = "generated"

\* C3: decode fails with UnsupportedVersion when the version is below the
\* start of every generated range or falls in a range with no live variant,
\* and never fails with it at a version that has a live variant.
C3_UnsupportedIffNoLive ==
    Decoded =>
        LET below == \A k \in DOMAIN gen.impls : dec.version < gen.impls[k].start
            empty == \E k \in DOMAIN gen.impls :
                        /\ RangeCheck(gen.impls[k], dec.version)
                        /\ gen.impls[k].arms = <<>>
                        /\ \A j \in 1..(k - 1) : ~RangeCheck(gen.impls[j], dec.version)
        IN /\ (below \/ empty) => dec.res.kind = "UnsupportedVersion"
           /\ Live(table, dec.version) # {} => dec.res.kind # "UnsupportedVersion"

\* C4: at a version v with n >= 1 live variants, a word whose opcode byte is
\* >= n fails with UnknownOpcode; no decode returns a variant that is not
\* live at v.
C4_UnknownOpcode ==
    Decoded =>
        LET n == Cardinality(Live(table, dec.version))
        IN /\ (n >= 1 /\ DecOpcode >= n) => dec.res.kind = "UnknownOpcode"
           /\ dec.res.kind = "insn" =>
                 /\ dec.res.variant \in Live(table, dec.version)
                 /\ DecOpcode < n

\* The operands a word built from the bytes OP | A | B | C carries.
Operand(f, abc) ==
    CASE f = "a" -> abc[1]
      [] f = "b" -> abc[2]
      [] f = "c" -> abc[3]
      [] f = "d" -> abc[3] * 256 + abc[2]

MaxEmit == 3
MaxProg == 2

\* enum Label
LabelNone == [tag |-> "None"]
Label(ir, bc) == [tag |-> "Label", ir |-> ir, bc |-> bc]

\* enum BasicOperand and enum Primitive
Var(v) == [kind |-> "Var", v |-> v]
Upvalue(v) == [kind |-> "Upvalue", v |-> v]
UnsignedLiteral(v) == [kind |-> "UnsignedLiteral", v |-> v]
Num(v) == [kind |-> "Num", v |-> v]
Str(v) == [kind |-> "Str", v |-> v]
Pri(p) == [kind |-> "Pri", p |-> p]

\* enum Expr: Binary, the two-operand expressions and the one-operand ones
Binary(op, lhs, rhs) == [e |-> "Binary", op |-> op, lhs |-> lhs, rhs |-> rhs]
Expr2(e, lhs, rhs) == [e |-> e, lhs |-> lhs, rhs |-> rhs]
Expr1(e, v) == [e |-> e, v |-> v]

\* enum Operand, through the two Into<Operand> impls
BasicInto(x) == [tag |-> "Basic", basic |-> x]
ExprInto(x) == [tag |-> "Expr", expr |-> x]

\* enum Insn
Assign(lhs, rhs) == [tag |-> "Assign", lhs |-> lhs, rhs |-> rhs]
ConditionalBranch(cond, target) ==
    [tag |-> "ConditionalBranch", cond |-> cond, target |-> target]
Branch(target) == [tag |-> "Branch", target |-> target]
Return(base, count) == [tag |-> "Return", base |-> base, count |-> count]

\* Outcome of a call on the emitter: the instructions it leaves, and whether
\* it panicked.
Done(insns) == [panic |-> FALSE, instructions |-> insns]
Panicked(insns) == [panic |-> TRUE, instructions |-> insns]

\* emit writing over the last slot instead of appending.
emit_Overwrite(insns, insn) ==
    IF insns = <<>> THEN <<insn>> ELSE [insns EXCEPT ![Len(insns)] = insn]

\* Emitter::emit
emit(insns, insn) == Append(insns, insn)

\* fixup_branch that never looks at the last instruction.
fixup_branch_AlwaysAppend(insns, tgt) == Done(emit(insns, Branch(tgt)))

\* fixup_branch scanning backward for the most recent pending conditional.
fixup_branch_ScansBack(insns, tgt) ==
    LET pending == {j \in DOMAIN insns :
                        /\ insns[j].tag = "ConditionalBranch"
                        /\ insns[j].target.tag = "None"}
    IN IF Len(insns) = 0 THEN Panicked(insns)
       ELSE IF pending # {}
            THEN Done([insns EXCEPT ![SetMax(pending)].target = tgt])
            ELSE Done(emit(insns, Branch(tgt)))

\* Emitter::fixup_branch.  idx = len() - 1 is computed first: on an empty
\* vector the subtraction panics with overflow checks and wraps to
\* usize::MAX without, where indexing the vector panics.
fixup_branch(insns, tgt) ==
    IF Len(insns) = 0 THEN Panicked(insns)
    ELSE LET idx == Len(insns)
         IN IF insns[idx].tag = "ConditionalBranch"
               /\ insns[idx].target.tag = "None"
            THEN Done([insns EXCEPT ![idx].target = tgt])
            ELSE Done(emit(insns, Branch(tgt)))

\* The instructions and targets handed to the emitter directly.
EmitInsns ==
    { ConditionalBranch(ExprInto(Binary("Lt", Var(2), Var(3))), LabelNone),
      ConditionalBranch(ExprInto(Binary("Eq", Var(1), Var(770))), LabelNone),
      ConditionalBranch(ExprInto(Binary("Lt", Var(2), Var(3))), Label(0, 9)),
      Branch(Label(0, 9)),
      Assign(BasicInto(Var(1)), BasicInto(Var(2))),
      Return(Var(4), 0) }
FixupLabels == {LabelNone, Label(0, 9), Label(0, 17)}

\* Records the outcome r of a call on the emitter.
Apply(op, arg, r) ==
    /\ emitter' = r.instructions
    /\ estatus' = IF r.panic THEN "panic" ELSE "ok"
    /\ log' = Append(log, [op |-> op, arg |-> arg, pre |-> emitter])
    /\ UNCHANGED <<checks, genVars, dumpVars>>

Emit(insn) ==
    /\ estatus = "ok"
    /\ Len(log) < MaxEmit
    /\ Apply("emit", insn, Done(emit(emitter, insn)))

FixupBranch(tgt) ==
    /\ estatus = "ok"
    /\ Len(log) < MaxEmit
    /\ Apply("fixup_branch", tgt, fixup_branch(emitter, tgt))

InitEmit ==
    /\ checks \in BOOLEAN
    /\ table = <<>>
    /\ gen = NotGenerated
    /\ dec = NoDecode
    /\ EmitterNew
    /\ NoInput

NextEmit ==
    \/ \E insn \in EmitInsns : Emit(insn)
    \/ \E tgt \in FixupLabels : FixupBranch(tgt)

SpecEmit == InitEmit /\ [][NextEmit]_vars

(***************************************************************************)
(* The lifter, Insn::parse (src/rs7/src/lua/ir/insn.rs).                   *)
(***************************************************************************)
U16Max == 65535

\* A decoded bytecode::Instruction: its variant name and operands.  d is the
\* 16-bit operand that shares its bits with b and c.
Bc(op, a, b, c) == [op |-> op, a |-> a, b |-> b, c |-> c, d |-> b + 256 * c]

\* The arms of lines 233-244.
CmpOpOf ==
    [ISLT |-> "Lt", ISGE |-> "Ge", ISLE |-> "Le", ISGT |-> "Gt",
     ISEQV |-> "Eq", ISNEV |-> "Ne", ISEQS |-> "Eq", ISNES |-> "Ne",
     ISEQN |-> "Eq", ISNEN |-> "Ne", ISEQP |-> "Eq", ISNEP |-> "Ne"]

\* The arms whose body is todo!().
TodoOps ==
    {"ISTC", "ISFC", "IST", "ISF", "ISTYPE", "ISNUM",
     "KCDATA", "KSHORT", "KNIL",
     "UCLO", "FNEW", "TNEW", "TDUP", "GGET", "GSET",
     "TGETR", "TSETR", "TSETM",
     "CALLM", "CALL", "CALLMT", "CALLT", "ITERC", "ITERN", "VARG", "ISNEXT",
     "RETM",
     "FORI", "JFORI", "FORL", "IFORL", "JFORL", "ITERL", "IITERL", "JITERL",
     "LOOP", "ILOOP", "JLOOP",
     "FUNCF", "IFUNCF", "JFUNCF", "FUNCV", "IFUNCV", "JFUNCV",
     "FUNCC", "FUNCCW", "FUNC"}

\* op!(Pri v): the primitive named by v, or NoPri where the macro reaches
\* unimplemented!().
NoPri == [kind |-> "unimplemented"]

\* OpPri with True and False exchanged.
OpPri_Swapped(v) ==
    CASE v = 0 -> Pri("Nil")
      [] v = 1 -> Pri("False")
      [] v = 2 -> Pri("True")
      [] OTHER -> NoPri

OpPri(v) ==
    CASE v = 0 -> Pri("Nil")
      [] v = 1 -> Pri("True")
      [] v = 2 -> Pri("False")
      [] OTHER -> NoPri

\* The arms that call emit_assignment: the pair <<lhs, rhs>> they pass.
AssignOps ==
    {"MOV", "NOT", "UNM", "LEN",
     "ADDVN", "SUBVN", "MULVN", "DIVVN", "MODVN",
     "ADDNV", "SUBNV", "MULNV", "DIVNV", "MODNV",
     "ADDVV", "SUBVV", "MULVV", "DIVVV", "MODVV",
     "POW", "CAT", "KSTR", "KNUM", "KPRI",
     "UGET", "USETV", "USETS", "USETN", "USETP",
     "TGETV", "TGETS", "TGETB", "TSETV", "TSETS", "TSETB"}

AssignArgs(i) ==
    LET a == i.a  b == i.b  c == i.c  d == i.d
        op == i.op
    IN CASE op = "MOV" -> <<Var(a), Var(d)>>
         [] op = "NOT" -> <<Var(a), Expr1("Not", Var(d))>>
         [] op = "UNM" -> <<Var(a), Expr1("Negate", Var(d))>>
         [] op = "LEN" -> <<Var(a), Expr1("Len", Var(d))>>
         [] op = "ADDVN" -> <<Var(a), Expr2("Add", Var(b), Num(c))>>
         [] op = "SUBVN" -> <<Var(a), Expr2("Sub", Var(b), Num(c))>>
         [] op = "MULVN" -> <<Var(a), Expr2("Mul", Var(b), Num(c))>>
         [] op = "DIVVN" -> <<Var(a), Expr2("Div", Var(b), Num(c))>>
         [] op = "MODVN" -> <<Var(a), Expr2("Mul", Var(b), Num(c))>>
         [] op = "ADDNV" -> <<Var(a), Expr2("Add", Num(b), Var(c))>>
         [] op = "SUBNV" -> <<Var(a), Expr2("Sub", Num(b), Var(c))>>
         [] op = "MULNV" -> <<Var(a), Expr2("Mul", Num(b), Var(c))>>
         [] op = "DIVNV" -> <<Var(a), Expr2("Div", Num(b), Var(c))>>
         [] op = "MODNV" -> <<Var(a), Expr2("Rem", Num(b), Var(c))>>
         [] op = "ADDVV" -> <<Var(a), Expr2("Add", Var(b), Var(c))>>
         [] op = "SUBVV" -> <<Var(a), Expr2("Sub", Var(b), Var(c))>>
         [] op = "MULVV" -> <<Var(a), Expr2("Mul", Var(b), Var(c))>>
         [] op = "DIVVV" -> <<Var(a), Expr2("Div", Var(b), Var(c))>>
         [] op = "MODVV" -> <<Var(a), Expr2("Rem", Var(b), Var(c))>>
         [] op = "POW" -> <<Var(a), Expr2("Pow", Var(b), Var(c))>>
         [] op = "CAT" -> <<Var(a), Expr2("Cat", Var(b), Var(c))>>
         [] op = "KSTR" -> <<Var(a), Str(d)>>
         [] op = "KNUM" -> <<Var(a), Num(d)>>
         [] op = "KPRI" -> <<Var(a), OpPri(d)>>
         [] op = "UGET" -> <<Var(a), Upvalue(d)>>
         [] op = "USETV" -> <<Upvalue(a), Var(d)>>
         [] op = "USETS" -> <<Upvalue(a), Str(d)>>
         [] op = "USETN" -> <<Upvalue(a), Num(d)>>
         [] op = "USETP" -> <<Upvalue(a), OpPri(d)>>
         [] op = "TGETV" -> <<Var(a), Expr2("Index", Var(b), Var(c))>>
         [] op = "TGETS" -> <<Var(a), Expr2("Index", Var(b), Str(c))>>
         [] op = "TGETB" -> <<Var(a), Expr2("Index", Var(b), UnsignedLiteral(c))>>
         [] op = "TSETV" -> <<Expr2("Index", Var(b), Var(c)), Var(a)>>
         [] op = "TSETS" -> <<Expr2("Index", Var(b), Var(c)), Str(a)>>
         [] op = "TSETB" -> <<Expr2("Index", Var(b), Var(c)), UnsignedLiteral(a)>>

\* Into<Operand> for BasicOperand and for Expr.
Into(x) == IF "kind" \in DOMAIN x THEN BasicInto(x) ELSE ExprInto(x)

\* Insn::emit_cond_branch
emit_cond_branch(insns, op, a, d) ==
    emit(insns, ConditionalBranch(Into(Binary(op, Var(a), Var(d))), LabelNone))

\* Insn::emit_assignment
emit_assignment(insns, lhs, rhs) == emit(insns, Assign(Into(lhs), Into(rhs)))

\* SubU16 that returns its first operand.
SubU16_NoSub(x, y, checked) == [panic |-> FALSE, val |-> x]

\* u16 subtraction: panics with overflow checks, wraps without.
SubU16(x, y, checked) ==
    IF x >= y THEN [panic |-> FALSE, val |-> x - y]
    ELSE IF checked THEN [panic |-> TRUE, val |-> 0]
    ELSE [panic |-> FALSE, val |-> x - y + U16Max + 1]

\* Insn::parse(insn, emitter)
InsnParse(i, insns, checked) ==
    CASE i.op \in DOMAIN CmpOpOf ->
            Done(emit_cond_branch(insns, CmpOpOf[i.op], i.a, i.d))
      [] i.op \in TodoOps -> Panicked(insns)
      [] i.op \in AssignOps ->
            LET args == AssignArgs(i)
            IN IF NoPri \in {args[1], args[2]} THEN Panicked(insns)
               ELSE Done(emit_assignment(insns, args[1], args[2]))
      [] i.op = "RET" ->
            LET count == SubU16(i.d, 1, checked)
            IN IF count.panic THEN Panicked(insns)
               ELSE Done(emit(insns, Return(Var(i.a), count.val)))
      [] i.op = "RET0" -> Done(emit(insns, Return(Var(i.a), 0)))
      [] i.op = "RET1" -> Done(emit(insns, Return(Var(i.a), 1)))
      [] i.op = "JMP" -> fixup_branch(insns, Label(0, i.d))

\* The instructions lifted: every opcode with operands a = 1, b = 2, c = 3
\* (d = 770), and the operands that single out a case of an arm.
LiftInputs ==
    {Bc(op, 1, 2, 3) : op \in DOMAIN CmpOpOf \cup TodoOps \cup AssignOps
                                \cup {"RET", "RET0", "RET1", "JMP"}}
      \cup {Bc("ISLT", 2, 3, 0), Bc("JMP", 0, 17, 0), Bc("JMP", 0, 9, 0),
            Bc("RET0", 4, 1, 0), Bc("RET", 2, 4, 0), Bc("RET", 1, 0, 0),
            Bc("RET", 1, 1, 0), Bc("RET1", 4, 0, 0), Bc("RETM", 2, 4, 0)}
      \cup {Bc(op, 5, d, 0) : op \in {"KPRI", "USETP"}, d \in 0..3}

Parse(insn) ==
    /\ estatus = "ok"
    /\ Len(log) < MaxProg
    /\ Apply("parse", insn, InsnParse(insn, emitter, checks))

NextLift == \E insn \in LiftInputs : Parse(insn)

SpecLift == InitEmit /\ [][NextLift]_vars

(***************************************************************************)
(* Claims about the emitter and the lifter.                                *)
(***************************************************************************)
\* The emitter after the k-th logged call, and whether that call returned.
Post(k) == IF k < Len(log) THEN log[k + 1].pre ELSE emitter
Completed(k) == k < Len(log) \/ estatus = "ok"

\* The last instruction of insns is a ConditionalBranch with target None.
PendingLast(insns) ==
    /\ insns # <<>>
    /\ insns[Len(insns)].tag = "ConditionalBranch"
    /\ insns[Len(insns)].target = LabelNone

SetLastTarget(insns, t) == [insns EXCEPT ![Len(insns)].target = t]

\* C6: every fixup_branch(t) call returns having either set the target of a
\* pending last ConditionalBranch to t, the count unchanged, or, in every
\* other state including the empty emitter, appended exactly one Branch{t}.
C6_FixupBranchTwoCases ==
    \A k \in DOMAIN log :
        log[k].op = "fixup_branch" =>
            LET pre == log[k].pre
                t == log[k].arg
            IN /\ Completed(k)
               /\ Post(k) = IF PendingLast(pre) THEN SetLastTarget(pre, t)
                            ELSE Append(pre, Branch(t))

\* The comparison the claim names for each compare opcode.
CompareOpcodes ==
    {"ISLT", "ISGE", "ISLE", "ISGT", "ISEQV", "ISNEV", "ISEQS", "ISNES",
     "ISEQN", "ISNEN", "ISEQP", "ISNEP"}
ExpectedCmp(op) ==
    CASE op = "ISLT" -> "Lt"
      [] op = "ISGE" -> "Ge"
      [] op = "ISLE" -> "Le"
      [] op = "ISGT" -> "Gt"
      [] op \in {"ISEQV", "ISEQS", "ISEQN", "ISEQP"} -> "Eq"
      [] op \in {"ISNEV", "ISNES", "ISNEN", "ISNEP"} -> "Ne"

\* A compare opcode lifted by call k and a JMP lifted by call k + 1.
CompareThenJmp(k) ==
    /\ k \in DOMAIN log /\ k + 1 \in DOMAIN log
    /\ log[k].op = "parse" /\ log[k + 1].op = "parse"
    /\ log[k].arg.op \in CompareOpcodes
    /\ log[k + 1].arg.op = "JMP"

\* C7: lifting a compare opcode with operands a, d and then JMP with operand
\* d' leaves, after what the emitter held before, exactly one instruction:
\* ConditionalBranch{Binary(op, Var(a), Var(d)), Label with bc = d'}, op being
\* the comparison of the opcode; no Branch is emitted for the JMP.
C7_CompareJmpFused ==
    \A k \in DOMAIN log :
        CompareThenJmp(k) =>
            LET pre == log[k].pre
                cmp == log[k].arg
                post == Post(k + 1)
                last == post[Len(post)]
            IN /\ Completed(k + 1)
               /\ Len(post) = Len(pre) + 1
               /\ SubSeq(post, 1, Len(pre)) = pre
               /\ last.tag = "ConditionalBranch"
               /\ last.cond = ExprInto(Binary(ExpectedCmp(cmp.op),
                                              Var(cmp.a), Var(cmp.d)))
               /\ last.target.tag = "Label"
               /\ last.target.bc = log[k + 1].arg.d

\* C7 witness: ISLT 2, 3 then JMP 0, 17 lifted into a single instruction.
C7_Witness ==
    /\ CompareThenJmp(1)
    /\ log[1].arg = Bc("ISLT", 2, 3, 0)
    /\ log[2].arg = Bc("JMP", 0, 17, 0)
    /\ estatus = "ok"
    /\ Len(emitter) = 1
    /\ emitter[1].target = Label(0, 17)

\* C8: two consecutive fixup_branch(t) calls both return; they set one
\* target and append one Branch{t} when the instruction that was last before
\* the first call was a pending conditional, and otherwise set nothing and
\* append two Branch{t}; the second call leaves the target set by the first.
C8_TwoFixups ==
    \A k \in DOMAIN log :
        log[k].op = "fixup_branch" =>
            LET pre == log[k].pre
                t == log[k].arg
            IN /\ Completed(k)
               /\ (/\ k + 1 \in DOMAIN log
                   /\ log[k + 1].op = "fixup_branch"
                   /\ log[k + 1].arg = t)
                  => /\ Completed(k + 1)
                     /\ Post(k + 1) =
                          IF PendingLast(pre)
                          THEN Append(SetLastTarget(pre, t), Branch(t))
                          ELSE pre \o <<Branch(t), Branch(t)>>

(***************************************************************************)
(* The dump parser (src/rs7/src/lua/bytecode): byte readers.               *)
(*                                                                         *)
(* A reader takes the buffer and the number of bytes already consumed and  *)
(* returns [ok, val, pos]; ok = FALSE is a panic.  A u32 is a pair of      *)
(* 16-bit limbs [lo, hi].                                                  *)
(***************************************************************************)
Ok(val, pos) == [ok |-> TRUE, val |-> val, pos |-> pos]
Fail(pos) == [ok |-> FALSE, val |-> 0, pos |-> pos]

\* Sequencing of reads: the outcome r of a read is computed once; a panic
\* ends the caller, otherwise the caller continues with K(r).
Then(r, K(_)) ==
    CHOOSE out \in {IF x.ok THEN K(x) ELSE Fail(x.pos) : x \in {r}} : TRUE

U32(n) == [lo |-> n % 65536, hi |-> n \div 65536]

\* `as usize` of a u32 used as a count or a length.  No modelled buffer holds
\* 65536 items, so every larger value is kept as 65536.
AsUsize(u) == IF u.hi = 0 THEN u.lo ELSE 65536

\* Buf::get_u8: panics when no byte remains.
GetU8(buf, p) == IF p < Len(buf) THEN Ok(buf[p + 1], p + 1) ELSE Fail(p)

\* Buf::copy_to_slice / the fixed-width get_* readers: n bytes, or a panic.
GetBytes(buf, p, n) ==
    IF p + n <= Len(buf) THEN Ok(SubSeq(buf, p + 1, p + n), p + n) ELSE Fail(p)

RECURSIVE BitOr(_, _)
BitOr(x, y) ==
    IF x = 0 THEN y
    ELSE IF y = 0 THEN x
    ELSE (IF x % 2 = 1 \/ y % 2 = 1 THEN 1 ELSE 0) + 2 * BitOr(x \div 2, y \div 2)

\* u32 | u32
OrU32(x, y) == [lo |-> BitOr(x.lo, y.lo), hi |-> BitOr(x.hi, y.hi)]

\* (b as u32) << n for a byte b and 0 <= n < 32: bits shifted out are lost.
ShlU32(b, n) ==
    IF n < 16
    THEN [lo |-> (b * 2^n) % 65536, hi |-> ((b * 2^n) \div 65536) % 65536]
    ELSE [lo |-> 0, hi |-> (b * 2^(n - 16)) % 65536]

\* The loop of impl_unsigned!'s read.  A shift amount of 32 or more panics
\* with overflow checks and is taken modulo 32 without.
RECURSIVE LebLoop(_, _, _, _, _)
LebLoop(buf, p, result, shift, checked) ==
    Then(GetU8(buf, p), LAMBDA g :
        IF shift >= 32 /\ checked THEN Fail(g.pos)
        ELSE IF g.val < 128
             THEN Ok(OrU32(result, ShlU32(g.val, shift % 32)), g.pos)
             ELSE LebLoop(buf, g.pos,
                          OrU32(result, ShlU32(g.val % 128, shift % 32)),
                          shift + 7, checked))

\* read_leb::<u32>
ReadLeb(buf, p, checked) ==
    Then(GetU8(buf, p), LAMBDA g :
        IF g.val < 128 THEN Ok(U32(g.val), g.pos)
        ELSE LebLoop(buf, g.pos, U32(g.val % 128), 7, checked))

\* read_string(data, size)
read_string(buf, p, size) == GetBytes(buf, p, size)

\* String::from_utf8 on the inputs of the model, which are ASCII.
Utf8(bytes) == \A k \in DOMAIN bytes : bytes[k] < 128

\* read_cstring: the bytes up to the next 0, None when they are not UTF-8.
RECURSIVE CStringLoop(_, _, _)
CStringLoop(buf, p, str) ==
    Then(GetU8(buf, p), LAMBDA g :
        IF g.val = 0 THEN Ok(IF Utf8(str) THEN Some(str) ELSE None, g.pos)
        ELSE CStringLoop(buf, g.pos, Append(str, g.val)))

read_cstring(buf, p) == CStringLoop(buf, p, <<>>)

(***************************************************************************)
(* Constants: table_item.rs and constant.rs.                               *)
(***************************************************************************)
\* Two consecutive read_leb::<u32>: [first, second].
ReadLeb2(buf, p, checked) ==
    Then(ReadLeb(buf, p, checked), LAMBDA x :
    Then(ReadLeb(buf, x.pos, checked), LAMBDA y :
        Ok([first |-> x.val, second |-> y.val], y.pos)))

\* TableItem::new
TableItemNew(buf, p, checked) ==
    Then(ReadLeb(buf, p, checked), LAMBDA t :
        CASE AsUsize(t.val) = 0 -> Ok([item |-> "Nil"], t.pos)
          [] AsUsize(t.val) = 1 -> Ok([item |-> "False"], t.pos)
          [] AsUsize(t.val) = 2 -> Ok([item |-> "True"], t.pos)
          [] AsUsize(t.val) = 3 ->
                Then(ReadLeb(buf, t.pos, checked), LAMBDA v :
                    Ok([item |-> "Integer", bits |-> v.val], v.pos))
          [] AsUsize(t.val) = 4 ->
                Then(ReadLeb2(buf, t.pos, checked), LAMBDA v :
                    Ok([item |-> "Numeric", hi |-> v.val.second,
                        lo |-> v.val.first], v.pos))
          [] OTHER ->
                Then(read_string(buf, t.pos, AsUsize(t.val) - 5), LAMBDA v :
                    Ok([item |-> "String", bytes |-> v.val], v.pos)))

\* (0..n).map(|_| TableItem::new(data)).collect(); the (key, value) pairs of
\* the hash part are read as 2 * nhash items in a row.
RECURSIVE TableItems(_, _, _, _, _)
TableItems(buf, p, n, acc, checked) ==
    IF n = 0 THEN Ok(acc, p)
    ELSE Then(TableItemNew(buf, p, checked), LAMBDA v :
            TableItems(buf, v.pos, n - 1, Append(acc, v.val), checked))

\* read_parts taking the first word read as lo.
read_parts_LoFirst(buf, p, checked) ==
    Then(ReadLeb2(buf, p, checked), LAMBDA v :
        Ok([hi |-> v.val.second, lo |-> v.val.first], v.pos))

\* read_parts: hi first, then lo; the value is (hi << 32) | lo.
read_parts(buf, p, checked) ==
    Then(ReadLeb2(buf, p, checked), LAMBDA v :
        Ok([hi |-> v.val.first, lo |-> v.val.second], v.pos))

\* usize subtraction proto - 1 at position p: panics with overflow checks,
\* wraps without.
\* usize::MAX is held as the largest integer of the checker: it is only ever
\* compared with prototype positions, all of which are far below it.
UsizeMax == 2147483647
PrevProto(proto, p, checked) ==
    IF proto >= 1 THEN Ok(proto - 1, p)
    ELSE IF checked THEN Fail(p)
    ELSE Ok(UsizeMax, p)

\* Complex::new: the table arm (lines 58-77).
ComplexTable(buf, p, checked) ==
    Then(ReadLeb2(buf, p, checked), LAMBDA n :
    Then(TableItems(buf, n.pos, AsUsize(n.val.first), <<>>, checked), LAMBDA array :
    Then(TableItems(buf, array.pos, 2 * AsUsize(n.val.second), <<>>, checked),
         LAMBDA hash :
        Ok([kgc |-> "Table", array |-> array.val, hash |-> hash.val], hash.pos))))

\* Complex::new(data, proto)
ComplexNew(buf, p, proto, checked) ==
    Then(ReadLeb(buf, p, checked), LAMBDA t :
        CASE AsUsize(t.val) = 0 ->
                Then(PrevProto(proto, t.pos, checked), LAMBDA j :
                    Ok([kgc |-> "Prototype", index |-> j.val], j.pos))
          [] AsUsize(t.val) = 1 -> ComplexTable(buf, t.pos, checked)
          [] AsUsize(t.val) = 2 ->
                Then(read_parts(buf, t.pos, checked), LAMBDA v :
                    Ok([kgc |-> "Signed", bits |-> v.val], v.pos))
          [] AsUsize(t.val) = 3 ->
                Then(read_parts(buf, t.pos, checked), LAMBDA v :
                    Ok([kgc |-> "Unsigned", bits |-> v.val], v.pos))
          [] AsUsize(t.val) = 4 ->
                Then(read_parts(buf, t.pos, checked), LAMBDA re :
                Then(read_parts(buf, re.pos, checked), LAMBDA im :
                    Ok([kgc |-> "Complex", real |-> re.val,
                        imaginary |-> im.val], im.pos)))
          [] OTHER ->
                Then(read_string(buf, t.pos, AsUsize(t.val) - 5), LAMBDA v :
                    Ok([kgc |-> "String", bytes |-> v.val], v.pos)))

\* The loop of bcread_uleb128_33 (lines 126-135).
RECURSIVE Uleb33Loop(_, _, _, _)
Uleb33Loop(buf, p, value, shift) ==
    IF shift >= 32 THEN Fail(p)
    ELSE Then(GetU8(buf, p), LAMBDA g :
            IF g.val < 128
            THEN Ok(OrU32(value, ShlU32(g.val, shift)), g.pos)
            ELSE Uleb33Loop(buf, g.pos, OrU32(value, ShlU32(g.val % 128, shift)),
                            shift + 7))

\* bcread_uleb128_33 continuing at shift 7, as a plain ULEB128 would.
bcread_uleb128_33_Shift7(buf, p) ==
    Then(GetU8(buf, p), LAMBDA g :
        IF g.val < 128
        THEN Ok([is_number |-> g.val % 2 = 1, value |-> U32(g.val \div 2)], g.pos)
        ELSE Then(Uleb33Loop(buf, g.pos, U32((g.val \div 2) % 64), 7), LAMBDA r :
                Ok([is_number |-> g.val % 2 = 1, value |-> r.val], r.pos)))

\* bcread_uleb128_33: [is_number, value]
bcread_uleb128_33(buf, p) ==
    Then(GetU8(buf, p), LAMBDA g :
        IF g.val < 128
        THEN Ok([is_number |-> g.val % 2 = 1, value |-> U32(g.val \div 2)], g.pos)
        ELSE Then(Uleb33Loop(buf, g.pos, U32((g.val \div 2) % 64), 6), LAMBDA r :
                Ok([is_number |-> g.val % 2 = 1, value |-> r.val], r.pos)))

\* Numeric::new
NumericNew(buf, p, checked) ==
    Then(bcread_uleb128_33(buf, p), LAMBDA r :
        IF r.val.is_number
        THEN Then(ReadLeb(buf, r.pos, checked), LAMBDA hi :
                Ok([hi |-> hi.val, lo |-> r.val.value], hi.pos))
        ELSE Ok([hi |-> U32(0), lo |-> r.val.value], r.pos))

(***************************************************************************)
(* debug.rs, prototype.rs and dump.rs.                                     *)
(***************************************************************************)
\* LineWidth with the two thresholds taken strictly.
LineWidth_Strict(line_count) ==
    IF line_count > 65536 THEN 4 ELSE IF line_count > 256 THEN 2 ELSE 1

\* Debug::new: width in bytes of one line entry.
LineWidth(line_count) ==
    IF line_count >= 65536 THEN 4 ELSE IF line_count >= 256 THEN 2 ELSE 1

\* The upvalue names: upvalue_count C strings, a panic on one that is None.
RECURSIVE UpvalueNames(_, _, _, _)
UpvalueNames(buf, p, n, acc) ==
    IF n = 0 THEN Ok(acc, p)
    ELSE Then(read_cstring(buf, p), LAMBDA v :
            IF v.val = None THEN Fail(v.pos)
            ELSE UpvalueNames(buf, v.pos, n - 1,
                              Append(acc, UnwrapOr(v.val, <<>>))))

\* variable::Variable::new(data, tp), called with tp # 0
VariableNew(buf, p, tp, checked) ==
    Then(IF tp >= 7 THEN read_cstring(buf, p) ELSE Ok(Some(<<>>), p), LAMBDA name :
        IF name.val = None THEN Fail(name.pos)
        ELSE Then(ReadLeb2(buf, name.pos, checked), LAMBDA scope :
                Ok([tp |-> Min2(tp, 7),
                    name |-> IF tp >= 7 THEN <<tp>> \o UnwrapOr(name.val, <<>>)
                             ELSE <<>>,
                    scope |-> scope.val], scope.pos)))

\* The variable loop of Debug::new: entries up to the End tag.
RECURSIVE Variables(_, _, _, _)
Variables(buf, p, acc, checked) ==
    Then(GetU8(buf, p), LAMBDA tp :
        IF tp.val = 0 THEN Ok(acc, tp.pos)
        ELSE Then(VariableNew(buf, tp.pos, tp.val, checked), LAMBDA v :
                Variables(buf, v.pos, Append(acc, v.val), checked)))

\* Debug::new(data, sizeinsn, line_count, upvalue_count); the stored lines
\* are vec![].
DebugNew(buf, p, sizeinsn, line_count, upvalue_count, checked) ==
    Then(GetBytes(buf, p, sizeinsn * LineWidth(line_count)), LAMBDA lines :
    Then(UpvalueNames(buf, lines.pos, upvalue_count, <<>>), LAMBDA upvalues :
    Then(Variables(buf, upvalues.pos, <<>>, checked), LAMBDA variables :
        Ok([lines |-> <<>>, upvalues |-> upvalues.val,
            variables |-> variables.val], variables.pos))))

\* (0..n).map(...).collect() over fixed-width items: the instruction words
\* (4 bytes, get_u32_ne of the generated Instruction::new) and the upvalues
\* (2 bytes, read_u16).  The bytes are kept as read.
RECURSIVE FixedItems(_, _, _, _, _)
FixedItems(buf, p, n, width, acc) ==
    IF n = 0 THEN Ok(acc, p)
    ELSE Then(GetBytes(buf, p, width), LAMBDA v :
            FixedItems(buf, v.pos, n - 1, width, Append(acc, v.val)))

\* (0..sizekgc).map(|_| Complex::new(data, index)).collect()
RECURSIVE ComplexConstants(_, _, _, _, _, _)
ComplexConstants(buf, p, n, index, acc, checked) ==
    IF n = 0 THEN Ok(acc, p)
    ELSE Then(ComplexNew(buf, p, index, checked), LAMBDA v :
            ComplexConstants(buf, v.pos, n - 1, index, Append(acc, v.val), checked))

\* (0..sizekn).map(|_| Numeric::new(data)).collect()
RECURSIVE NumericConstants(_, _, _, _, _)
NumericConstants(buf, p, n, acc, checked) ==
    IF n = 0 THEN Ok(acc, p)
    ELSE Then(NumericNew(buf, p, checked), LAMBDA v :
            NumericConstants(buf, v.pos, n - 1, Append(acc, v.val), checked))

\* DebugSizes reading sizedbg whether or not the dump is stripped.
DebugSizes_AlwaysRead(buf, p, stripped, checked) ==
    Then(ReadLeb(buf, p, checked), LAMBDA sizedbg :
        IF sizedbg.val = U32(0)
        THEN Ok([sizedbg |-> U32(0), firstline |-> U32(0), numline |-> 0],
                sizedbg.pos)
        ELSE Then(ReadLeb2(buf, sizedbg.pos, checked), LAMBDA l :
                Ok([sizedbg |-> sizedbg.val, firstline |-> l.val.first,
                    numline |-> AsUsize(l.val.second)], l.pos)))

\* The three fields read when the dump is not stripped (lines 57-71):
\* [sizedbg, firstline, numline].
DebugSizes(buf, p, stripped, checked) ==
    IF stripped THEN Ok([sizedbg |-> U32(0), firstline |-> U32(0), numline |-> 0], p)
    ELSE Then(ReadLeb(buf, p, checked), LAMBDA sizedbg :
            IF sizedbg.val = U32(0)
            THEN Ok([sizedbg |-> U32(0), firstline |-> U32(0), numline |-> 0],
                    sizedbg.pos)
            ELSE Then(ReadLeb2(buf, sizedbg.pos, checked), LAMBDA l :
                    Ok([sizedbg |-> sizedbg.val, firstline |-> l.val.first,
                        numline |-> AsUsize(l.val.second)], l.pos)))

\* The counts at the head of a prototype (lines 48-55).
ProtoCounts(buf, p, checked) ==
    Then(GetBytes(buf, p, 4), LAMBDA b :
    Then(ReadLeb2(buf, b.pos, checked), LAMBDA k :
    Then(ReadLeb(buf, k.pos, checked), LAMBDA sizeinsn :
        Ok([flags |-> b.val[1], numparams |-> b.val[2], framesize |-> b.val[3],
            sizeuv |-> b.val[4], sizekgc |-> AsUsize(k.val.first),
            sizekn |-> AsUsize(k.val.second),
            sizeinsn |-> AsUsize(sizeinsn.val)], sizeinsn.pos))))

\* The debug block of a prototype (lines 82-86).
ProtoDebug(buf, p, h, dbg, checked) ==
    IF dbg.sizedbg # U32(0)
    THEN Then(DebugNew(buf, p, h.sizeinsn, dbg.numline, h.sizeuv, checked),
              LAMBDA d : Ok(Some(d.val), d.pos))
    ELSE Ok(None, p)

\* The part of Prototype::new after the counts: instructions, upvalues,
\* constants, debug block and the value returned (lines 74-101).  Nothing
\* compares the bytes consumed with the declared size (line 88).
PrototypeBody(buf, p, h, dbg, index, size, body, checked) ==
    Then(FixedItems(buf, p, h.sizeinsn, 4, <<>>), LAMBDA instructions :
    Then(FixedItems(buf, instructions.pos, h.sizeuv, 2, <<>>), LAMBDA upvalues :
    Then(ComplexConstants(buf, upvalues.pos, h.sizekgc, index, <<>>, checked),
         LAMBDA complex_constants :
    Then(NumericConstants(buf, complex_constants.pos, h.sizekn, <<>>, checked),
         LAMBDA numeric_constants :
    Then(ProtoDebug(buf, numeric_constants.pos, h, dbg, checked), LAMBDA debug :
        Ok([kind |-> "Some", size |-> size, body |-> body,
            proto |-> [index |-> index, flags |-> h.flags,
                       numparams |-> h.numparams, framesize |-> h.framesize,
                       debug |-> debug.val,
                       instructions |-> instructions.val, uvs |-> upvalues.val,
                       kgc |-> complex_constants.val,
                       kn |-> numeric_constants.val]],
           debug.pos))))))

\* Prototype::new(dump, data, index).  The value is [kind, size, body,
\* proto]: kind "None" or "Some", the declared size, the position after the
\* size field and the prototype.
NoProto == [index |-> 0]
PrototypeNew(buf, p, stripped, index, checked) ==
    Then(ReadLeb(buf, p, checked), LAMBDA size :
        IF size.val = U32(0)
        THEN Ok([kind |-> "None", size |-> 0, body |-> size.pos,
                 proto |-> NoProto], size.pos)
        ELSE Then(ProtoCounts(buf, size.pos, checked), LAMBDA h :
             Then(DebugSizes(buf, h.pos, stripped, checked), LAMBDA dbg :
                PrototypeBody(buf, dbg.pos, h.val, dbg.val, index,
                              AsUsize(size.val), size.pos, checked))))

MaxFrames == 2

\* flags & 1 in the place of flags & 2.
StrippedBit_Bit0(flags) == flags.lo % 2 = 1

\* flags & 2
StrippedBit(flags) == (flags.lo \div 2) % 2 = 1

\* The header part of Dump::new (lines 27-46): [stripped, name].
DumpHeader(buf, checked) ==
    Then(GetBytes(buf, 0, 4), LAMBDA header :
        IF header.val # <<27, 76, 74, 2>> THEN Fail(header.pos)
        ELSE Then(ReadLeb(buf, header.pos, checked), LAMBDA flags :
            IF StrippedBit(flags.val)
            THEN Ok([stripped |-> TRUE, name |-> None], flags.pos)
            ELSE Then(ReadLeb(buf, flags.pos, checked), LAMBDA len :
                 Then(read_string(buf, len.pos, AsUsize(len.val)), LAMBDA file_name :
                    Ok([stripped |-> FALSE, name |-> Some(file_name.val)],
                       file_name.pos)))))

\* The streams parsed: a header followed by up to MaxFrames frames.
Magic == <<27, 76, 74, 2>>
Headers ==
    { Magic \o <<2>>,               \* stripped
      Magic \o <<0, 1, 65>>,        \* not stripped, name "A"
      Magic \o <<3>>,               \* stripped, bit 0 set as well
      Magic \o <<5, 0>>,            \* bits 0 and 2 set, not stripped, name ""
      <<27, 76, 74, 1, 2>>,         \* another version byte
      Magic }                       \* ends before the flags
FrameBytes ==
    { <<0>>,                                    \* size 0
      <<6, 0, 0, 1, 0, 0, 0, 0>>,               \* declares 6, stripped body of 7
      <<7, 0, 0, 1, 0, 0, 0, 0>>,               \* declares 7, stripped body of 7
      <<9, 0, 0, 1, 0, 0, 0, 0>>,               \* declares 9, stripped body of 7
      <<13, 0, 0, 2, 1, 0, 0, 1, 18, 0, 1, 0, 0, 0>>,   \* 1 instruction, 1 upvalue
      <<9, 0, 0, 1, 0, 1, 1, 0, 0, 4>>,         \* kgc tag 0, kn 2
      <<8, 0, 0, 1, 0, 0, 0, 0, 0>>,            \* not stripped, sizedbg 0
      <<16, 0, 0, 1, 0, 0, 0, 1, 2, 1, 1, 18, 0, 1, 0, 1, 0>>,  \* debug block
      <<7, 0, 0>> }                             \* cut short
RECURSIVE FrameSeqs(_)
FrameSeqs(n) ==
    IF n = 0 THEN {<<>>}
    ELSE FrameSeqs(n - 1) \cup {s \o f : s \in FrameSeqs(n - 1), f \in FrameBytes}
Streams == {h \o s : h \in Headers, s \in FrameSeqs(MaxFrames)}

FrameEntry(r) ==
    IF r.ok
    THEN [kind |-> r.val.kind, start |-> cursor, size |-> r.val.size,
          body |-> r.val.body, end |-> r.pos]
    ELSE [kind |-> "panic", start |-> cursor, size |-> 0, body |-> cursor,
          end |-> r.pos]

\* Dump::new up to the loop.
ReadHeader ==
    /\ pstatus = "start"
    /\ \E h \in {DumpHeader(input, checks)} :
          /\ cursor' = h.pos
          /\ pstatus' = IF h.ok THEN "loop" ELSE "panic"
          /\ dump' = IF h.ok
                     THEN [dump EXCEPT !.stripped = h.val.stripped,
                                       !.name = h.val.name]
                     ELSE dump
    /\ UNCHANGED <<checks, genVars, emitVars, input, frames>>

\* One iteration of the loop of lines 48-52.
ReadPrototype ==
    /\ pstatus = "loop"
    /\ cursor < Len(input)
    /\ \E r \in {PrototypeNew(input, cursor, dump.stripped, Len(dump.protos),
                              checks)} :
          /\ cursor' = r.pos
          /\ frames' = Append(frames, FrameEntry(r))
          /\ pstatus' = IF r.ok THEN "loop" ELSE "panic"
          /\ dump' = IF r.ok /\ r.val.kind = "Some"
                     THEN [dump EXCEPT !.protos = Append(@, r.val.proto)]
                     ELSE dump
    /\ UNCHANGED <<checks, genVars, emitVars, input>>

\* Finish without the assertion of line 54.
Finish_AllowsEmpty ==
    /\ pstatus = "loop"
    /\ cursor >= Len(input)
    /\ pstatus' = "done"
    /\ dump' = [dump EXCEPT !.main = Some(Len(dump.protos) - 1)]
    /\ UNCHANGED <<checks, genVars, emitVars, input, cursor, frames>>

\* The end of Dump::new (lines 54-57).
Finish ==
    /\ pstatus = "loop"
    /\ cursor >= Len(input)
    /\ IF dump.protos = <<>>
       THEN pstatus' = "panic" /\ dump' = dump
       ELSE /\ pstatus' = "done"
            /\ dump' = [dump EXCEPT !.main = Some(Len(dump.protos) - 1)]
    /\ UNCHANGED <<checks, genVars, emitVars, input, cursor, frames>>

InitParse ==
    /\ checks \in BOOLEAN
    /\ table = <<>>
    /\ gen = NotGenerated
    /\ dec = NoDecode
    /\ EmitterNew
    /\ input \in Streams
    /\ cursor = 0
    /\ dump = NoDump
    /\ pstatus = "start"
    /\ frames = <<>>

NextParse == ReadHeader \/ ReadPrototype \/ Finish

SpecParse == InitParse /\ [][NextParse]_vars

(***************************************************************************)
(* Claims about the dump parser.                                           *)
(***************************************************************************)
\* C9: once Prototype::new has read a size of 0, parsing stops: that call is
\* the last frame read, and no prototype is appended after it, even when
\* bytes remain in the stream.
C9_SizeZeroTerminates ==
    \A k \in DOMAIN frames :
        frames[k].kind = "None" =>
            /\ k = Len(frames)
            /\ \A j \in DOMAIN frames : j > k => frames[j].kind # "Some"

\* C10: a prototype is appended only if the bytes consumed after its size
\* field equal the declared size; a frame where they differ makes the
\* parse fail.
C10_SizeVerified ==
    \A k \in DOMAIN frames :
        frames[k].kind = "Some" =>
            frames[k].end - frames[k].body = frames[k].size

\* The minimal stripped dump: header, one prototype frame, terminator.
MinimalDump == Magic \o <<2>> \o <<6, 0, 0, 1, 0, 0, 0, 0>> \o <<0>>

\* C11: parsing 1B 4C 4A 02 02 | 06 00 00 01 00 00 00 00 | 00 never fails and
\* returns a Dump with stripped = true, name = None, exactly one prototype
\* (index 0, no instructions, upvalues, constants or debug block), main = 0.
C11_MinimalDump ==
    input = MinimalDump =>
        /\ pstatus # "panic"
        /\ pstatus = "done" =>
              /\ dump.stripped = TRUE
              /\ dump.name = None
              /\ Len(dump.protos) = 1
              /\ dump.protos[1].index = 0
              /\ dump.protos[1].instructions = <<>>
              /\ dump.protos[1].uvs = <<>>
              /\ dump.protos[1].kgc = <<>>
              /\ dump.protos[1].kn = <<>>
              /\ dump.protos[1].debug = None
              /\ dump.main = Some(0)

\* C11 witness: the minimal dump has been parsed to the end.
C11_Witness == input = MinimalDump /\ pstatus = "done" /\ Len(frames) = 2

\* The stream has a valid header followed by nothing or by terminators only.
NoPrototypeFrame ==
    \E h \in {DumpHeader(input, checks)} :
        h.ok /\ \A k \in (h.pos + 1)..Len(input) : input[k] = 0

\* C12: a returned Dump holds at least one prototype, main is the position
\* of the last one and the prototype at position i has index i; a stream
\* with a valid header and no prototype frame returns no Dump: it fails on
\* the emptiness assertion once the whole stream is read.
C12_MainIsLast ==
    /\ pstatus = "done" =>
          /\ Len(dump.protos) >= 1
          /\ dump.main = Some(Len(dump.protos) - 1)
          /\ \A i \in DOMAIN dump.protos : dump.protos[i].index = i - 1
    /\ NoPrototypeFrame =>
          /\ pstatus # "done"
          /\ pstatus = "panic" =>
                /\ cursor = Len(input)
                /\ dump.protos = <<>>
                /\ \A k \in DOMAIN frames : frames[k].kind = "None"

\* C12 witness: a Dump of two prototypes has been returned.
C12_Witness ==
    /\ pstatus = "done"
    /\ Len(dump.protos) = 2
    /\ dump.main = Some(1)

\* C13: in a returned Dump every Complex::Prototype(j) held by the prototype
\* at position i has j = i - 1 >= 0; in particular the prototype at position
\* 0 holds no Prototype reference.
C13_PrototypeRefsLower ==
    pstatus = "done" =>
        \A i \in DOMAIN dump.protos :
            \A k \in DOMAIN dump.protos[i].kgc :
                dump.protos[i].kgc[k].kgc = "Prototype" =>
                    /\ i - 1 >= 1
                    /\ dump.protos[i].kgc[k].index = i - 2

\* The header's flags word, a single LEB byte in every stream parsed.
HeaderFlags == input[5]

\* C19: once the header is read, stripped is bit 1 of the flags word and the
\* name is present exactly when the dump is not stripped; a prototype of a
\* stripped dump has no debug block, its frame holding no sizedbg field.
C19_StrippedFlag ==
    pstatus \in {"loop", "done"} =>
        /\ dump.stripped = ((HeaderFlags \div 2) % 2 = 1)
        /\ (dump.name # None) = ~dump.stripped
        /\ dump.stripped =>
              /\ \A i \in DOMAIN dump.protos : dump.protos[i].debug = None
              /\ \A k \in DOMAIN frames :
                    (/\ frames[k].start + 8 <= Len(input)
                     /\ SubSeq(input, frames[k].start + 1, frames[k].start + 8)
                           = <<7, 0, 0, 1, 0, 0, 0, 0>>)
                    => /\ frames[k].kind = "Some"
                       /\ frames[k].end = frames[k].start + 8

\* C19 witness: a stripped dump whose flags also have bit 0 set, parsed to
\* the end with a prototype.
C19_Witness ==
    /\ pstatus = "done"
    /\ HeaderFlags = 3
    /\ dump.stripped
    /\ dump.protos # <<>>

(***************************************************************************)
(* Claims about the arms of Insn::parse.                                   *)
(***************************************************************************)
\* The k-th logged call lifted an instruction of one of the opcodes ops.
Lifted(k, ops) == log[k].op = "parse" /\ log[k].arg.op \in ops

\* C14: lifting RET a,d with d >= 1 appends exactly Return{Var(a), d - 1};
\* lifting RET0 a,d appends exactly Return{Var(a), 0} and RET1 a,d exactly
\* Return{Var(a), 1}, whatever d is.
C14_ReturnCounts ==
    \A k \in DOMAIN log :
        Lifted(k, {"RET", "RET0", "RET1"}) =>
            LET i == log[k].arg
                count == CASE i.op = "RET" -> i.d - 1
                           [] i.op = "RET0" -> 0
                           [] i.op = "RET1" -> 1
            IN (i.op = "RET" => i.d >= 1) =>
                  /\ Completed(k)
                  /\ Post(k) = Append(log[k].pre, Return(Var(i.a), count))

\* C14 witness: RET a=2,d=4 lifted to Return{Var(2), 3}, then RET0 a=4,d=1
\* lifted to Return{Var(4), 0}.
C14_Witness ==
    /\ Len(log) = 2
    /\ log[1].arg = Bc("RET", 2, 4, 0)
    /\ log[2].arg = Bc("RET0", 4, 1, 0)
    /\ estatus = "ok"
    /\ emitter = <<Return(Var(2), 3), Return(Var(4), 0)>>

\* C15: lifting RETM a,d returns having appended exactly Return{Var(a), d}.
C15_ReturnVariadic ==
    \A k \in DOMAIN log :
        Lifted(k, {"RETM"}) =>
            /\ Completed(k)
            /\ Post(k) = Append(log[k].pre,
                                Return(Var(log[k].arg.a), log[k].arg.d))

\* The primitive the claim names for d.
ExpectedPri(d) ==
    CASE d = 0 -> "Nil"
      [] d = 1 -> "True"
      [] d = 2 -> "False"

\* C16: lifting KPRI a,d (USETP a,d) with d in 0..2 appends exactly one
\* Assign of Pri(Nil / True / False) to Var(a) (Upvalue(a)); with any other d
\* the lift fails and leaves the emitter's instructions as they were.
C16_Primitive ==
    \A k \in DOMAIN log :
        Lifted(k, {"KPRI", "USETP"}) =>
            LET i == log[k].arg
                lhs == IF i.op = "KPRI" THEN Var(i.a) ELSE Upvalue(i.a)
            IN IF i.d \in 0..2
               THEN /\ Completed(k)
                    /\ Post(k) = Append(log[k].pre,
                                        Assign(BasicInto(lhs),
                                               BasicInto(Pri(ExpectedPri(i.d)))))
               ELSE /\ ~Completed(k)
                    /\ Post(k) = log[k].pre

\* C16 witness: KPRI a=5,d=1 lifted to Var(5) := True, then USETP a=5,d=3
\* failed, the instruction sequence unchanged.
C16_Witness ==
    /\ Len(log) = 2
    /\ log[1].arg = Bc("KPRI", 5, 1, 0)
    /\ log[2].arg = Bc("USETP", 5, 3, 0)
    /\ estatus = "panic"
    /\ emitter = <<Assign(BasicInto(Var(5)), BasicInto(Pri("True")))>>

\* The control-flow and builtin families whose lowering is left open.
OpenFamilies ==
    {"FORI", "FORL", "ITERC", "ITERN", "LOOP", "CALL", "CALLM", "CALLT",
     "CALLMT", "VARG", "UCLO", "FNEW", "TNEW", "TDUP", "GGET", "GSET",
     "ISTYPE", "ISNUM", "ISTC", "ISFC", "IST", "ISF", "TSETM", "ISNEXT",
     "TGETR", "TSETR",
     "FUNCF", "IFUNCF", "JFUNCF", "FUNCV", "IFUNCV", "JFUNCV",
     "FUNCC", "FUNCCW", "FUNC"}

\* C20: lifting an instruction of an open family returns normally, so the
\* instructions that follow it can still be lifted.
C20_OpenFamiliesAccepted ==
    \A k \in DOMAIN log : Lifted(k, OpenFamilies) => Completed(k)

(***************************************************************************)
(* Claims about the version ranges of the generated decoder.               *)
(***************************************************************************)
\* Some generated range contains version v.
Covered(v) == \E k \in DOMAIN gen.impls : RangeCheck(gen.impls[k], v)

\* C17: in a generated decoder two consecutive versions with equal live
\* sets lie in the same range, a version whose live set differs from those
\* of both neighbours has a range of its own, and two adjacent ranges never
\* have equal live sets.
C17_MaximalCoalescing ==
    gen.status = "generated" =>
        /\ \A v \in 0..(U8Max - 1) :
              (Covered(v) /\ Live(table, v) = Live(table, v + 1)) =>
                  \E k \in DOMAIN gen.impls :
                      /\ RangeCheck(gen.impls[k], v)
                      /\ RangeCheck(gen.impls[k], v + 1)
        /\ \A v \in 1..(U8Max - 1) :
              (/\ Covered(v)
               /\ Live(table, v) # Live(table, v - 1)
               /\ Live(table, v) # Live(table, v + 1)) =>
                  \E k \in DOMAIN gen.impls :
                      gen.impls[k].start = v /\ gen.impls[k].end = v + 1
        /\ \A j, k \in DOMAIN gen.impls :
              (gen.impls[j].start < gen.impls[j].end
                  /\ gen.impls[j].end = gen.impls[k].start) =>
                  Live(table, gen.impls[j].start) # Live(table, gen.impls[k].start)

\* The table without the variant at position p, and the position in the
\* table of the variant that stands at position j once p is removed.
Without(t, p) == [k \in 1..(Len(t) - 1) |-> IF k < p THEN t[k] ELSE t[k + 1]]
Shifted(j, p) == IF j < p THEN j ELSE j + 1

\* C18: take any variant X of the table as the one inserted, at its
\* position p, into the table T of the others.  Whenever a decoder is
\* generated from T, one is generated from T plus X, and at every version
\* below X.added it decodes each word as the decoder of T does: the same
\* variant with the same operands, or the same failure.
C18_InsertionKeepsOlderVersions ==
    \A p \in DOMAIN table :
        \E old \in {bytecode_insn_impl(Without(table, p), checks)} :
            (old.status = "generated" /\ gen.status # "input") =>
                /\ gen.status = "generated"
                /\ (Decoded /\ dec.version < table[p].added) =>
                      \E r \in {InstructionNew(Without(table, p), old.impls,
                                               dec.insn, dec.version)} :
                          /\ dec.res.kind = r.kind
                          /\ r.kind = "insn" =>
                                /\ dec.res.variant = Shifted(r.variant, p)
                                /\ dec.res.ops = r.ops

(***************************************************************************)
(* The readers called on their own: one call, at the start of a byte       *)
(* stream, of bcread_uleb128_33, Numeric::new, read_leb::<u32>,            *)
(* Complex::new or Debug::new.  frames holds the call and its outcome.     *)
(***************************************************************************)
MaxZeros == 9

\* n bytes 0.
Zeros(n) == [k \in 1..n |-> 0]

ReadInputs ==
    {Zeros(n) : n \in 0..MaxZeros}
      \cup {<<1>>, <<1, 5>>, <<130, 1>>, <<3, 128, 1>>, <<255, 127>>,
            <<2, 128, 1, 0>>, <<3, 1, 2>>, <<4, 1, 2, 3, 4>>, <<6, 65>>,
            <<127>>, <<128, 1>>, <<255, 255, 255, 255, 15>>,
            <<255, 255, 255, 255, 127>>, <<128, 128, 128, 128, 128, 1>>,
            <<128, 128, 128, 128, 128>>, <<255, 255, 255, 255, 255, 255, 3>>,
            <<5, 6, 0>>, <<5, 6, 7, 8, 0, 9>>}

\* The line counts handed to Debug::new: both sides of each threshold.
LineCounts == {0, 255, 256, 257, 65535, 65536}

Call(name, args, r) ==
    /\ pstatus = "start"
    /\ pstatus' = "called"
    /\ cursor' = r.pos
    /\ frames' = <<[kind |-> name, args |-> args, ok |-> r.ok, val |-> r.val,
                    end |-> r.pos]>>
    /\ UNCHANGED <<checks, genVars, emitVars, input, dump>>

CallUleb33 == \E r \in {bcread_uleb128_33(input, 0)} : Call("uleb128_33", <<>>, r)

CallNumeric == \E r \in {NumericNew(input, 0, checks)} : Call("Numeric", <<>>, r)

CallReadLeb == \E r \in {ReadLeb(input, 0, checks)} : Call("read_leb", <<>>, r)

CallComplex ==
    \E r \in {ComplexNew(input, 0, 1, checks)} : Call("Complex", <<1>>, r)

CallDebug(sizeinsn, line_count) ==
    \E r \in {DebugNew(input, 0, sizeinsn, line_count, 0, checks)} :
        Call("Debug", <<sizeinsn, line_count>>, r)

InitRead ==
    /\ checks \in BOOLEAN
    /\ table = <<>>
    /\ gen = NotGenerated
    /\ dec = NoDecode
    /\ EmitterNew
    /\ input \in ReadInputs
    /\ cursor = 0
    /\ dump = NoDump
    /\ pstatus = "start"
    /\ frames = <<>>

NextRead ==
    \/ CallUleb33
    \/ CallNumeric
    \/ CallReadLeb
    \/ CallComplex
    \/ \E sizeinsn \in 0..2, line_count \in LineCounts :
          CallDebug(sizeinsn, line_count)

SpecRead == InitRead /\ [][NextRead]_vars

\* The call made, when it is a call of the reader named.
Called(name) == frames # <<>> /\ frames[1].kind = name

\* C21 as stated: 00 gives (false, 0), 01 gives (true, 0) from one byte, the
\* caller reading hi next, and 82 01 gives (false, 64).
C21_Uleb33Examples_Stated ==
    /\ Called("uleb128_33") =>
          /\ input = <<0>> =>
                /\ frames[1].ok
                /\ frames[1].val = [is_number |-> FALSE, value |-> U32(0)]
          /\ input \in {<<1>>, <<1, 5>>} =>
                /\ frames[1].ok
                /\ frames[1].val = [is_number |-> TRUE, value |-> U32(0)]
                /\ frames[1].end = 1
          /\ input = <<130, 1>> =>
                /\ frames[1].ok
                /\ frames[1].val = [is_number |-> FALSE, value |-> U32(64)]
    /\ (Called("Numeric") /\ input = <<1, 5>>) =>
          frames[1].ok /\ frames[1].end = 2 /\ frames[1].val.hi = U32(5)

\* C21 amended: as stated, except that 82 01 gives (false, 65): bits 1-6 of
\* the first byte, here 1, are the low six bits and the next byte's seven
\* bits are shifted by 6.
C21_Uleb33Examples ==
    /\ Called("uleb128_33") =>
          /\ input = <<0>> =>
                /\ frames[1].ok
                /\ frames[1].val = [is_number |-> FALSE, value |-> U32(0)]
          /\ input \in {<<1>>, <<1, 5>>} =>
                /\ frames[1].ok
                /\ frames[1].val = [is_number |-> TRUE, value |-> U32(0)]
                /\ frames[1].end = 1
          /\ input = <<130, 1>> =>
                /\ frames[1].ok
                /\ frames[1].val = [is_number |-> FALSE, value |-> U32(65)]
                /\ frames[1].end = 2
    /\ (Called("Numeric") /\ input = <<1, 5>>) =>
          frames[1].ok /\ frames[1].end = 2 /\ frames[1].val.hi = U32(5)

\* C21 witness: bcread_uleb128_33 has read the two bytes 82 01.
C21_Witness ==
    /\ Called("uleb128_33")
    /\ input = <<130, 1>>
    /\ frames[1].ok
    /\ frames[1].end = 2

\* C22: a read_leb::<u32> that returns has consumed at most 5 bytes, and a
\* fifth byte only if its bits fit in the 32-bit value (it is below 16): an
\* encoding that continues past its fifth byte or whose value does not fit in
\* 32 bits is rejected.
C22_Leb32Bounded ==
    (Called("read_leb") /\ frames[1].ok) =>
        /\ frames[1].end <= 5
        /\ frames[1].end = 5 => input[5] < 16

\* C23 as stated: the bytes 02 80 01 00 decode to Signed with hi = 0x80 and
\* lo = 0x01.
C23_SignedExample_Stated ==
    (Called("Complex") /\ input = <<2, 128, 1, 0>>) =>
        /\ frames[1].ok
        /\ frames[1].val = [kgc |-> "Signed",
                            bits |-> [hi |-> U32(128), lo |-> U32(1)]]

\* C23 amended: the bytes 02 80 01 00 decode to Signed((0x80 << 32) | 0x00):
\* hi = 0x80 is the first ULEB32 after the tag, the two bytes 80 01, and
\* lo = 0 is the second, the byte 00; all four bytes are consumed.
C23_SignedExample ==
    (Called("Complex") /\ input = <<2, 128, 1, 0>>) =>
        /\ frames[1].ok
        /\ frames[1].end = 4
        /\ frames[1].val = [kgc |-> "Signed",
                            bits |-> [hi |-> U32(128), lo |-> U32(0)]]

\* C23 witness: Complex::new has decoded 02 80 01 00.
C23_Witness ==
    /\ Called("Complex")
    /\ input = <<2, 128, 1, 0>>
    /\ frames[1].ok
    /\ frames[1].val.kgc = "Signed"

\* The entry width the claim gives for a line count.
ClaimedWidth(numline) ==
    IF numline <= 255 THEN 1 ELSE IF numline <= 65535 THEN 2 ELSE 4

\* C26: Debug::new called with sizeinsn and numline (and no upvalue) reads a
\* line table of exactly sizeinsn * w bytes, w being 1, 2 or 4 as numline is
\* at most 255, at most 65535 or larger: the call fails on a shorter stream,
\* and when the byte after the table is the End tag it returns having
\* consumed the table and that byte.
C26_LineTableWidth ==
    Called("Debug") =>
        LET table_len == frames[1].args[1] * ClaimedWidth(frames[1].args[2])
        IN /\ Len(input) < table_len + 1 => ~frames[1].ok
           /\ (Len(input) >= table_len + 1 /\ input[table_len + 1] = 0) =>
                 frames[1].ok /\ frames[1].end = table_len + 1

\* C26 witness: two entries of two bytes each at numline = 256.
C26_Witness ==
    /\ Called("Debug")
    /\ frames[1].args = <<2, 256>>
    /\ frames[1].ok
    /\ frames[1].end = 5

(***************************************************************************)
(* Claims about the arithmetic and table arms of Insn::parse.              *)
(***************************************************************************)
\* The expression named by an arithmetic mnemonic, and the operand kinds
\* named by its form.
ArithExpr ==
    [ADD |-> "Add", SUB |-> "Sub", MUL |-> "Mul", DIV |-> "Div", MOD |-> "Rem"]
ArithOpcodes ==
    {"ADDVN", "SUBVN", "MULVN", "DIVVN", "MODVN",
     "ADDNV", "SUBNV", "MULNV", "DIVNV", "MODNV",
     "ADDVV", "SUBVV", "MULVV", "DIVVV", "MODVV"}
ExpectedArith(i) ==
    LET mnemonic == CHOOSE m \in DOMAIN ArithExpr :
                        i.op \in {m \o "VN", m \o "NV", m \o "VV"}
        lhs == IF i.op = mnemonic \o "NV" THEN Num(i.b) ELSE Var(i.b)
        rhs == IF i.op = mnemonic \o "VN" THEN Num(i.c) ELSE Var(i.c)
    IN Assign(BasicInto(Var(i.a)),
              ExprInto(Expr2(ArithExpr[mnemonic], lhs, rhs)))

\* C24: lifting ADD/SUB/MUL/DIV/MOD in its VN, NV or VV form appends exactly
\* one Assign of Add/Sub/Mul/Div/Rem over (Var(b), Num(c)), (Num(b), Var(c))
\* or (Var(b), Var(c)) to Var(a); MODVN and MODNV both give Rem.
C24_ArithmeticLift ==
    \A k \in DOMAIN log :
        Lifted(k, ArithOpcodes) =>
            /\ Completed(k)
            /\ Post(k) = Append(log[k].pre, ExpectedArith(log[k].arg))

\* The operand of the kind named by the suffix V, S or B of a table opcode.
SuffixOperand(op, v) ==
    CASE op \in {"TGETV", "TSETV"} -> Var(v)
      [] op \in {"TGETS", "TSETS"} -> Str(v)
      [] op \in {"TGETB", "TSETB"} -> UnsignedLiteral(v)

ExpectedTable(i) ==
    LET slot == ExprInto(Expr2("Index", Var(i.b), SuffixOperand(i.op, i.c)))
    IN IF i.op \in {"TGETV", "TGETS", "TGETB"}
       THEN Assign(BasicInto(Var(i.a)), slot)
       ELSE Assign(slot, BasicInto(SuffixOperand(i.op, i.a)))

\* C25: TGETV/TGETS/TGETB lift to Assign{Var(a), Index(Var(b), K(c))} and
\* TSETV/TSETS/TSETB to Assign{Index(Var(b), K(c)), V(a)}, K and V being
\* Var, Str or UnsignedLiteral as the suffix is V, S or B.
C25_TableLift ==
    \A k \in DOMAIN log :
        Lifted(k, {"TGETV", "TGETS", "TGETB", "TSETV", "TSETS", "TSETB"}) =>
            /\ Completed(k)
            /\ Post(k) = Append(log[k].pre, ExpectedTable(log[k].arg))

(***************************************************************************)
(* Claims about the emitter as a whole and about the set of ranges.        *)
(***************************************************************************)
\* C27: every call leaves the instructions before the last slot as they
\* were and never shortens the sequence; emit adds exactly one instruction,
\* fixup_branch none or one; the last slot changes in place only by a
\* ConditionalBranch with target None receiving a label, its condition kept.
C27_AppendOnly ==
    \A k \in DOMAIN log :
        LET pre == log[k].pre
            post == Post(k)
            n == Len(pre)
        IN /\ Len(post) >= n
           /\ log[k].op = "emit" => Completed(k) /\ Len(post) = n + 1
           /\ log[k].op = "fixup_branch" => Len(post) - n \in {0, 1}
           /\ \A j \in 1..(n - 1) : post[j] = pre[j]
           /\ (n >= 1 /\ post[n] # pre[n]) =>
                 /\ log[k].op = "fixup_branch"
                 /\ Len(post) = n
                 /\ pre[n].tag = "ConditionalBranch"
                 /\ pre[n].target = LabelNone
                 /\ post[n].target.tag = "Label"
                 /\ post[n] = [pre[n] EXCEPT !.target = post[n].target]

\* C27 witness: an emit, then a fixup that set the last target in place,
\* then a fixup that appended.
C27_Witness ==
    /\ Len(log) = 3
    /\ log[1].op = "emit"
    /\ log[2].op = "fixup_branch"
    /\ log[3].op = "fixup_branch"
    /\ Len(log[3].pre) = 1
    /\ log[3].pre[1] # log[2].pre[1]
    /\ Len(emitter) = 2

\* Position j of insns holds a pending conditional that is not the last
\* instruction.
StalePending(insns, j) ==
    /\ j \in 1..(Len(insns) - 1)
    /\ insns[j].tag = "ConditionalBranch"
    /\ insns[j].target = LabelNone

\* C29: a ConditionalBranch with target None that was followed by another
\* instruction when some call was made is the same, target None, in every
\* later state; a fixup_branch made then returns having appended a Branch or
\* having set the target of the last instruction, a newer pending
\* conditional.
C29_StaleStaysPending ==
    \A k \in DOMAIN log :
        LET pre == log[k].pre
        IN \A j \in DOMAIN pre :
              StalePending(pre, j) =>
                  /\ emitter[j] = pre[j]
                  /\ log[k].op = "fixup_branch" =>
                        /\ Completed(k)
                        /\ Post(k) = IF PendingLast(pre)
                                     THEN SetLastTarget(pre, log[k].arg)
                                     ELSE Append(pre, Branch(log[k].arg))

\* C29 witness: a pending conditional, another instruction, then a fixup
\* that appended a standalone Branch and left the conditional pending.
C29_Witness ==
    /\ Len(log) = 3
    /\ log[3].op = "fixup_branch"
    /\ log[3].arg = Label(0, 9)
    /\ StalePending(log[3].pre, 1)
    /\ emitter = Append(log[3].pre, Branch(Label(0, 9)))

\* The generated ranges in ascending order, the order make_stable_ranges
\* returns them in.
Ranges == Reverse(gen.impls)

\* C28: the generated ranges are sorted by start, disjoint and contiguous,
\* the last one matches every version from its start up to 255, every
\* version from the smallest start on matches exactly one range and no
\* smaller version matches any, and decoding gives the same result when the
\* ranges are tested in the opposite order.
C28_RangesPartition ==
    gen.status = "generated" =>
        /\ \A k \in 1..(Len(Ranges) - 1) :
              /\ Ranges[k].start < Ranges[k].end
              /\ Ranges[k].end = Ranges[k + 1].start
        /\ Ranges # <<>> =>
              \A v \in Ranges[Len(Ranges)].start..U8Max :
                  RangeCheck(Ranges[Len(Ranges)], v)
        /\ \A v \in 0..U8Max :
              Cardinality({k \in DOMAIN Ranges : RangeCheck(Ranges[k], v)})
                  = IF Ranges # <<>> /\ v >= Ranges[1].start THEN 1 ELSE 0
        /\ Decoded =>
              dec.res = InstructionNew(table, Ranges, dec.insn, dec.version)

\* C28 witness: a decoder of at least three ranges has decoded a word.
C28_Witness ==
    /\ gen.status = "generated"
    /\ Len(gen.impls) >= 3
    /\ Decoded
    /\ dec.res.kind = "insn"

====
